---- MODULE Spec2Model ----
(***************************************************************************)
(* PlayerctlPlayerManager (src/playerctl/playerctl-player-manager.c):      *)
(* the registry of MPRIS player names seen on the session bus and the      *)
(* ordered list of managed PlayerctlPlayer objects.                        *)
(*                                                                         *)
(* C strings are tuples of one-character strings, so that the prefix test  *)
(* and the prefix stripping of player_id_from_bus_name are computed.       *)
(* GList values are sequences, the head of the list at index 1.            *)
(***************************************************************************)
EXTENDS Integers, Sequences, FiniteSets, TLC

(***************************************************************************)
(* Bounds of the model.                                                    *)
(***************************************************************************)
\* number of distinct PlayerctlPlayer objects a caller may hand in
MaxHandles == 3
\* number of distinct player ids that may own a name on the bus
MaxIds == 2

(***************************************************************************)
(* Strings, names and owners.                                              *)
(***************************************************************************)
\* The well-known-name prefix that player_id_from_bus_name strips (the macro
\* is spelled out in playerctl-common.h; three characters stand for it here).
MPRIS_PREFIX == <<"m", "p", ".">>

\* The null pointer where a gchar * is expected: no string over the alphabet.
NullStr == <<"NULL">>

IdChars == <<"a", "b", "c", "d", "e">>

\* The player ids that can appear after the prefix.
Ids == { <<IdChars[i]>> : i \in 1..MaxIds }

\* First child of the NameOwnerChanged parameters: names that follow the
\* convention, the bare prefix, and a name of another service.
BusNames ==
    { MPRIS_PREFIX \o id : id \in Ids }
        \cup { MPRIS_PREFIX, <<"x", "p", ".", "a">> }

\* Second and third child: the empty string (no owner) or a unique name.
Owners == { <<>>, <<":", "1">> }

(***************************************************************************)
(* Player objects.                                                         *)
(***************************************************************************)
NullPlayer == 0

Handles == 1..MaxHandles

\* What g_object_get(player, "player-id", &id, NULL) yields: several objects
\* may report the same id.
PlayerId(h) == IF h % 2 = 1 THEN <<"a">> ELSE <<"b">>

\* g_object_ref(player) and g_object_unref(player), on the references rf
\* that the manager holds.
g_object_ref(rf, player) == [rf EXCEPT ![player] = @ + 1]

\* Variant: the reference is dropped twice.
g_object_unref_twice(rf, player) == [rf EXCEPT ![player] = @ - 2]

g_object_unref(rf, player) == [rf EXCEPT ![player] = @ - 1]

(***************************************************************************)
(* Sort configurations handed to set_sort_func: (sort_func, sort_data,     *)
(* notify).  cmp_priority orders players by a numeric priority that it     *)
(* reads through sort_data.                                                *)
(***************************************************************************)
SortConfigs ==
    { <<"NULL", "NULL", "NULL">>,
      <<"cmp_priority", "prio1", "g_free">>,
      <<"cmp_priority", "prio2", "NULL">> }

Priority(data, h) ==
    IF data = "prio1"
    THEN (IF h = 1 THEN 2 ELSE IF h = 2 THEN 1 ELSE h)
    ELSE h % 2

\* sort_func(a, b, sort_data): negative, zero or positive.
Compare(func, data, a, b) == Priority(data, a) - Priority(data, b)

(***************************************************************************)
(* GList helpers.                                                          *)
(***************************************************************************)
\* g_list_remove_link(list, link): the list without its i-th link
g_list_remove_link(list, i) ==
    SubSeq(list, 1, i - 1) \o SubSeq(list, i + 1, Len(list))

\* Variant: g_list_append for g_list_prepend.
g_list_append(list, data) == list \o <<data>>

\* g_list_prepend(list, data)
g_list_prepend(list, data) == <<data>> \o list

\* Variant: the arguments of g_list_concat exchanged.
g_list_concat_behind(l, list) == list \o l

\* g_list_concat(l, list)
g_list_concat(l, list) == l \o list

\* A scan from the head of a list: the first of the indices that match, 0
\* (NULL) when none does.
FirstIndex(matching) ==
    IF matching = {} THEN 0
    ELSE CHOOSE i \in matching : \A j \in matching : i <= j

\* Variant: g_list_find, which compares the pointers; str is a fresh copy and
\* no link holds it.
g_list_find(list, str) == 0

\* Variant: only the first link is compared.
g_list_find_custom_first(list, str) ==
    IF list # <<>> /\ list[1] = str THEN 1 ELSE 0

\* g_list_find_custom(list, str, g_strcmp0)
g_list_find_custom(list, str) ==
    FirstIndex({ i \in 1..Len(list) : list[i] = str })

RECURSIVE g_list_sort_merge(_, _, _, _)
g_list_sort_merge(l1, l2, func, data) ==
    IF l1 = <<>> THEN l2
    ELSE IF l2 = <<>> THEN l1
    ELSE IF Compare(func, data, Head(l1), Head(l2)) <= 0
         THEN <<Head(l1)>> \o g_list_sort_merge(Tail(l1), l2, func, data)
         ELSE <<Head(l2)>> \o g_list_sort_merge(l1, Tail(l2), func, data)

\* g_list_sort_with_data(list, func, data): GLib's merge sort, the first half
\* holding Len \div 2 links.
RECURSIVE g_list_sort_with_data(_, _, _)
g_list_sort_with_data(list, func, data) ==
    IF Len(list) <= 1 THEN list
    ELSE LET half == Len(list) \div 2
         IN  g_list_sort_merge(
                 g_list_sort_with_data(SubSeq(list, 1, half), func, data),
                 g_list_sort_with_data(SubSeq(list, half + 1, Len(list)), func, data),
                 func, data)

\* g_list_insert_sorted_with_data(list, item, func, data): before the first
\* link that does not compare below item, else at the end.
g_list_insert_sorted_with_data(list, item, func, data) ==
    LET i == FirstIndex({ k \in 1..Len(list) :
                            Compare(func, data, item, list[k]) <= 0 })
    IN  IF i = 0 THEN list \o <<item>>
        ELSE SubSeq(list, 1, i - 1) \o <<item>> \o SubSeq(list, i, Len(list))

(***************************************************************************)
(* The state.                                                              *)
(***************************************************************************)
VARIABLES
    pc,             \* where the object is in its life
    initted,        \* priv->initted
    init_error,     \* priv->init_error != NULL
    proxy,          \* priv->proxy: "NULL" or "proxy"
    subscriptions,  \* handlers connected to the proxy's g-signal
    player_names,   \* priv->player_names
    players,        \* priv->players
    sort_func,      \* priv->sort_func
    sort_data,      \* priv->sort_data
    sort_notify,    \* priv->sort_notify
    refs,           \* references the manager holds, per player object
    attempts,       \* history: outcome of every bus connection attempt
    result,         \* history: what playerctl_player_manager_new returned
    last,           \* history: the last operation and its arguments
    emitted,        \* history: signals emitted by the last operation
    everManaged,    \* history: ids of the players ever passed to manage
    episode,        \* history: per id, the signals of its open episode
    closed,         \* history: the episode that the last operation closed
    owned,          \* the bus: ids whose conforming name has an owner
    observe         \* which history the behaviour records

vars ==
    <<pc, initted, init_error, proxy, subscriptions, player_names, players,
      sort_func, sort_data, sort_notify, refs, attempts, result, last,
      emitted, everManaged, episode, closed, owned, observe>>

privVars == <<initted, init_error, proxy, subscriptions>>
sortVars == <<sort_func, sort_data, sort_notify>>
lifeVars == <<pc, attempts, result>>

(***************************************************************************)
(* Inputs and history records.                                             *)
(***************************************************************************)
\* A g-signal of the org.freedesktop.DBus proxy: its name, the type of its
\* parameters and, for (sss), the three children.
Notification(signal_name, type, name, prev, new) ==
    [signal_name |-> signal_name, type |-> type, name |-> name,
     previous_owner |-> prev, new_owner |-> new]

Notifications ==
    { Notification("NameOwnerChanged", "(sss)", name, prev, new) :
        name \in BusNames, prev \in Owners, new \in Owners }
        \cup { Notification("NameLost", "(s)", MPRIS_PREFIX \o <<"a">>, <<>>, <<>>),
               Notification("NameOwnerChanged", "(s)", MPRIS_PREFIX \o <<"a">>,
                            <<>>, <<>>) }

NoCfg == <<"NULL", "NULL", "NULL">>

\* What a notification is about, read off its fields: what follows the
\* prefix in its name (the empty string for the bare prefix, NullStr for a
\* name without the prefix) and the kind of ownership change.
IdOf(n) ==
    IF \E suffix \in Ids \cup {<<>>} : n.name = MPRIS_PREFIX \o suffix
    THEN CHOOSE suffix \in Ids \cup {<<>>} : n.name = MPRIS_PREFIX \o suffix
    ELSE NullStr

KindOf(n) ==
    IF n.signal_name # "NameOwnerChanged" \/ n.type # "(sss)" THEN "malformed"
    ELSE IF Len(n.previous_owner) = 0 /\ Len(n.new_owner) # 0 THEN "appeared"
    ELSE IF Len(n.previous_owner) # 0 /\ Len(n.new_owner) = 0 THEN "vanished"
    ELSE IF Len(n.previous_owner) # 0 THEN "handoff"
    ELSE "unowned"

\* The last operation: which one and what it was called with.  For a
\* notification, id and kind say what it is about; for manage and
\* move_to_top, player is the object passed; for set_sort, cfg is the
\* configuration passed; for init, kind says whether the bus was asked.  was:
\* the id was in the registry (notification), the player was in the list
\* (manage) before the operation, the call returned TRUE (init).  before: the
\* player list before move_to_top and set_sort.
Op(op, id, kind, player, was, cfg, before) ==
    [op |-> op, id |-> id, kind |-> kind, player |-> player, was |-> was,
     cfg |-> cfg, before |-> before]

NoOp == Op("none", NullStr, "none", NullPlayer, FALSE, NoCfg, <<>>)

Other(op) == Op(op, NullStr, "none", NullPlayer, FALSE, NoCfg, <<>>)

\* A signal emission, with the lists as the handlers see them and, for a
\* player signal, the references the manager holds on the player then.
Signal(sig, name, player, names, ps, held) ==
    [sig |-> sig, name |-> name, player |-> player,
     player_names |-> names, players |-> ps, held |-> held]

\* No open episode, and an episode with nothing counted yet.
NoEpisode == [open |-> FALSE, id |-> NullStr, na |-> 0, nv |-> 0, pa |-> 0,
              pv |-> 0, changed |-> FALSE]

Range(list) == { list[i] : i \in 1..Len(list) }

NoDup(list) == \A i, j \in 1..Len(list) : list[i] = list[j] => i = j

\* number of signals sig in em that carry the id (name signals), or a player
\* reporting the id or, when any, whatever player (player signals)
CountFor(em, sig, id, any) ==
    Cardinality({ i \in 1..Len(em) :
        /\ em[i].sig = sig
        /\ IF em[i].player = NullPlayer
           THEN em[i].name = id
           ELSE any \/ PlayerId(em[i].player) = id })

\* operation o is a well-formed ownership change of the name of id
IsFor(o, id) == o.op = "notify" /\ o.kind # "malformed" /\ o.id = id

IsAppeared(o) == o.kind = "appeared"

IsVanished(o) == o.kind = "vanished"

\* The episode of id x is open from an appeared notification that finds x
\* outside the registry up to the next vanished notification for x, unless a
\* player reporting x was ever passed to manage.  It counts the name signals
\* that carry x (na, nv), the player signals that carry a player reporting x
\* or that a notification for x emits (pa, pv), and records whether a
\* notification for x changed the player list.  Counted(x, e, ...) is
\* episode e with the signals em of operation o added.
Counted(x, e, o, em, ps1) ==
    [open |-> TRUE, id |-> x,
     na |-> e.na + CountFor(em, "name-appeared", x, FALSE),
     nv |-> e.nv + CountFor(em, "name-vanished", x, FALSE),
     pa |-> e.pa + CountFor(em, "player-appeared", x, IsFor(o, x)),
     pv |-> e.pv + CountFor(em, "player-vanished", x, IsFor(o, x)),
     changed |-> e.changed \/ (IsFor(o, x) /\ ps1 # players)]

Managed(x, o) ==
    \/ x \in everManaged
    \/ (o.op = "manage" /\ o.player # NullPlayer /\ PlayerId(o.player) = x)

Opens(x, o) ==
    IsFor(o, x) /\ IsAppeared(o) /\ x \notin Range(player_names)

Closes(x, o) ==
    episode[x].open /\ ~Opens(x, o) /\ IsFor(o, x) /\ IsVanished(o)

EpisodeStep(x, o, em, ps1) ==
    IF Managed(x, o) THEN NoEpisode
    ELSE IF Opens(x, o) THEN Counted(x, NoEpisode, o, em, ps1)
    ELSE IF Closes(x, o) THEN NoEpisode
    ELSE IF episode[x].open THEN Counted(x, episode[x], o, em, ps1)
    ELSE episode[x]

\* The session bus, followed when observe = "bus": which ids' conforming
\* names have an owner.  The enumeration answers with the owned names, and a
\* NameOwnerChanged for a conforming name reports a change that the bus makes:
\* a name without owner gets one, a name with an owner loses or changes it.
Delivered(n) ==
    (observe = "bus" /\ KindOf(n) # "malformed" /\ IdOf(n) \in Ids) =>
        \/ KindOf(n) = "appeared" /\ IdOf(n) \notin owned
        \/ KindOf(n) \in {"vanished", "handoff"} /\ IdOf(n) \in owned

\* owned after the change that notification n reports
Bus(n) ==
    IF observe # "bus" \/ KindOf(n) = "malformed" \/ IdOf(n) \notin Ids
    THEN owned
    ELSE IF KindOf(n) = "appeared" THEN owned \cup {IdOf(n)}
    ELSE IF KindOf(n) = "vanished" THEN owned \ {IdOf(n)}
    ELSE owned

\* owned after a call of initable_init that returned r on outcome: the names
\* that the bus has just listed are the owned ones.
Enumerated(r, outcome, names) ==
    IF observe = "bus" /\ r.attempted /\ outcome = "ok" THEN Range(names)
    ELSE owned

\* The history variables after operation o emitted em and left ps1.  A
\* behaviour records its operations (last, emitted), with the bus (owned)
\* or without, its episodes (everManaged, episode, closed) or its bus
\* attempts (attempts), as observe says.
History(o, em, ps1) ==
    /\ observe' = observe
    /\ IF observe \in {"operations", "bus"}
       THEN /\ last' = o
            /\ emitted' = em
            /\ UNCHANGED <<everManaged, episode, closed>>
       ELSE IF observe = "attempts"
       THEN UNCHANGED <<last, emitted, everManaged, episode, closed>>
       ELSE /\ UNCHANGED <<last, emitted>>
            /\ everManaged' =
                  IF o.op = "manage" /\ o.player # NullPlayer
                  THEN everManaged \cup {PlayerId(o.player)}
                  ELSE everManaged
            /\ episode' = [x \in Ids |-> EpisodeStep(x, o, em, ps1)]
            /\ closed' =
                  IF \E x \in Ids : ~Managed(x, o) /\ Closes(x, o)
                  THEN LET x == CHOOSE x \in Ids : ~Managed(x, o) /\ Closes(x, o)
                       IN  Counted(x, episode[x], o, em, ps1)
                  ELSE NoEpisode

(***************************************************************************)
(* player_id_from_bus_name                                                 *)
(***************************************************************************)
g_str_has_prefix(str, prefix) ==
    /\ Len(str) >= Len(prefix)
    /\ SubSeq(str, 1, Len(prefix)) = prefix

\* Variant: the length of the name is not compared with the prefix's.
player_id_from_prefixed_name(bus_name) ==
    IF bus_name = NullStr \/ ~g_str_has_prefix(bus_name, MPRIS_PREFIX)
    THEN NullStr
    ELSE SubSeq(bus_name, Len(MPRIS_PREFIX) + 1, Len(bus_name))

player_id_from_bus_name(bus_name) ==
    LET prefix_len == Len(MPRIS_PREFIX)
    IN  IF \/ bus_name = NullStr
           \/ ~g_str_has_prefix(bus_name, MPRIS_PREFIX)
           \/ Len(bus_name) <= prefix_len
        THEN NullStr
        ELSE SubSeq(bus_name, prefix_len + 1, Len(bus_name))

(***************************************************************************)
(* manager_remove_managed_player_by_name: the first player of ps whose     *)
(* player-id is player_name is unlinked, player-vanished is emitted with   *)
(* it, and the reference of its link is dropped.  names is the registry    *)
(* at the time of the call.                                                *)
(***************************************************************************)
\* Variant: the result of g_strcmp0 is taken for a truth value, so the first
\* player with another id is removed.
manager_remove_managed_player_by_other_name(ps, rf, names, player_name) ==
    LET l == FirstIndex({ i \in 1..Len(ps) : PlayerId(ps[i]) # player_name })
    IN  IF l = 0
        THEN [players |-> ps, refs |-> rf, emitted |-> <<>>]
        ELSE LET ps1 == g_list_remove_link(ps, l)
             IN  [players |-> ps1,
                  refs |-> [rf EXCEPT ![ps[l]] = @ - 1],
                  emitted |-> <<Signal("player-vanished", NullStr, ps[l],
                                       names, ps1, rf[ps[l]])>>]

\* Variant: player-vanished is emitted before the link is taken out.
manager_remove_managed_player_emit_first(ps, rf, names, player_name) ==
    LET l == FirstIndex({ i \in 1..Len(ps) : PlayerId(ps[i]) = player_name })
    IN  IF l = 0
        THEN [players |-> ps, refs |-> rf, emitted |-> <<>>]
        ELSE [players |-> g_list_remove_link(ps, l),
              refs |-> [rf EXCEPT ![ps[l]] = @ - 1],
              emitted |-> <<Signal("player-vanished", NullStr, ps[l],
                                   names, ps, rf[ps[l]])>>]

manager_remove_managed_player_by_name(ps, rf, names, player_name) ==
    LET l == FirstIndex({ i \in 1..Len(ps) : PlayerId(ps[i]) = player_name })
    IN  IF l = 0
        THEN [players |-> ps, refs |-> rf, emitted |-> <<>>]
        ELSE LET ps1 == g_list_remove_link(ps, l)
             IN  [players |-> ps1,
                  refs |-> g_object_unref(rf, ps[l]),
                  emitted |-> <<Signal("player-vanished", NullStr, ps[l],
                                       names, ps1, rf[ps[l]])>>]

(***************************************************************************)
(* dbus_name_owner_changed_callback on registry names, players ps and      *)
(* references rf.                                                          *)
(***************************************************************************)
\* Variant: || for && in the test of line 314.
name_has_vanished_or(previous_owner, new_owner) ==
    Len(new_owner) = 0 \/ Len(previous_owner) # 0

\* line 314: the name has vanished
name_has_vanished(previous_owner, new_owner) ==
    Len(new_owner) = 0 /\ Len(previous_owner) # 0

\* Variant: the two owners exchanged in the test of line 330.
name_has_appeared_reversed(previous_owner, new_owner) ==
    Len(new_owner) = 0 /\ Len(previous_owner) # 0

\* line 330: the name has appeared
name_has_appeared(previous_owner, new_owner) ==
    Len(previous_owner) = 0 /\ Len(new_owner) # 0

dbus_name_owner_changed_callback(names, ps, rf, n) ==
    LET same == [player_names |-> names, players |-> ps, refs |-> rf,
                 emitted |-> <<>>]
        player_id == player_id_from_bus_name(n.name)
        player_entry == g_list_find_custom(names, player_id)
    IN  IF n.signal_name # "NameOwnerChanged" THEN same
        ELSE IF n.type # "(sss)" THEN same
        ELSE IF player_id = NullStr THEN same
        ELSE IF name_has_vanished(n.previous_owner, n.new_owner)
        THEN \* the name has vanished
             IF player_entry # 0
             THEN LET names1 == g_list_remove_link(names, player_entry)
                      rm == manager_remove_managed_player_by_name(
                                ps, rf, names1, names[player_entry])
                  IN  [player_names |-> names1,
                       players |-> rm.players,
                       refs |-> rm.refs,
                       emitted |-> rm.emitted \o
                           <<Signal("name-vanished", names[player_entry],
                                    NullPlayer, names1, rm.players, 0)>>]
             ELSE same
        ELSE IF name_has_appeared(n.previous_owner, n.new_owner)
        THEN \* the name has appeared
             IF player_entry = 0
             THEN LET names1 == g_list_prepend(names, player_id)
                  IN  [player_names |-> names1, players |-> ps, refs |-> rf,
                       emitted |-> <<Signal("name-appeared", player_id,
                                            NullPlayer, names1, ps, 0)>>]
             ELSE same
        ELSE same

\* Variant: the initted flag is not consulted.
initable_init_unguarded(outcome, names) ==
    IF outcome = "proxy_error"
    THEN [ret |-> FALSE, attempted |-> TRUE, error |-> TRUE,
          initted |-> FALSE, proxy |-> "NULL",
          player_names |-> player_names, subscriptions |-> subscriptions]
    ELSE IF outcome = "list_error"
    THEN [ret |-> FALSE, attempted |-> TRUE, error |-> TRUE,
          initted |-> FALSE, proxy |-> "proxy",
          player_names |-> <<>>, subscriptions |-> subscriptions]
    ELSE [ret |-> TRUE, attempted |-> TRUE, error |-> FALSE,
          initted |-> TRUE, proxy |-> "proxy",
          player_names |-> names, subscriptions |-> subscriptions + 1]

(***************************************************************************)
(* playerctl_player_manager_initable_init: one call, the bus answering     *)
(* with outcome ("proxy_error", "list_error" or "ok") and, when ok, with   *)
(* the enumerated names.                                                   *)
(***************************************************************************)
\* What playerctl_list_players can return: ids in any order, none twice.
ListPlayersResults ==
    { s \in UNION { [1..k -> Ids] : k \in 0..MaxIds } : NoDup(s) }

\* attempts after a call of initable_init that returned r on outcome
Attempted(r, outcome) ==
    IF observe = "attempts" /\ r.attempted THEN Append(attempts, outcome)
    ELSE attempts

\* What the bus answers to one initialization: the outcome and, when ok, the
\* enumerated names.
BusAnswers ==
    { <<"proxy_error", <<>>>>, <<"list_error", <<>>>> }
        \cup { <<"ok", names>> : names \in ListPlayersResults }

playerctl_player_manager_initable_init(outcome, names) ==
    IF initted
    THEN [ret |-> TRUE, attempted |-> FALSE, error |-> FALSE,
          initted |-> initted, proxy |-> proxy,
          player_names |-> player_names, subscriptions |-> subscriptions]
    ELSE IF outcome = "proxy_error"
    THEN [ret |-> FALSE, attempted |-> TRUE, error |-> TRUE,
          initted |-> FALSE, proxy |-> "NULL",
          player_names |-> player_names, subscriptions |-> subscriptions]
    ELSE IF outcome = "list_error"
    THEN [ret |-> FALSE, attempted |-> TRUE, error |-> TRUE,
          initted |-> FALSE, proxy |-> "proxy",
          player_names |-> <<>>, subscriptions |-> subscriptions]
    ELSE [ret |-> TRUE, attempted |-> TRUE, error |-> FALSE,
          initted |-> TRUE, proxy |-> "proxy",
          player_names |-> names, subscriptions |-> subscriptions + 1]

(***************************************************************************)
(* playerctl_player_manager_manage_player                                  *)
(***************************************************************************)
\* Variant: the list is not scanned for the player first.
manage_player_without_scan(ps, rf, func, data, player) ==
    IF player = NullPlayer
    THEN [players |-> ps, refs |-> rf, emitted |-> <<>>]
    ELSE LET ps1 == IF func # "NULL"
                    THEN g_list_insert_sorted_with_data(ps, player, func, data)
                    ELSE g_list_prepend(ps, player)
         IN  [players |-> ps1,
              refs |-> [rf EXCEPT ![player] = @ + 1],
              emitted |-> <<Signal("player-appeared", NullStr, player,
                                   player_names, ps1, rf[player] + 1)>>]

\* Variant: player-appeared is emitted before the player is inserted.
manage_player_emit_first(ps, rf, func, data, player) ==
    IF player = NullPlayer
    THEN [players |-> ps, refs |-> rf, emitted |-> <<>>]
    ELSE IF \E l \in 1..Len(ps) : ps[l] = player
    THEN [players |-> ps, refs |-> rf, emitted |-> <<>>]
    ELSE [players |-> IF func # "NULL"
                      THEN g_list_insert_sorted_with_data(ps, player, func, data)
                      ELSE g_list_prepend(ps, player),
          refs |-> [rf EXCEPT ![player] = @ + 1],
          emitted |-> <<Signal("player-appeared", NullStr, player,
                               player_names, ps, rf[player] + 1)>>]

playerctl_player_manager_manage_player(ps, rf, func, data, player) ==
    IF player = NullPlayer
    THEN [players |-> ps, refs |-> rf, emitted |-> <<>>]
    ELSE IF \E l \in 1..Len(ps) : ps[l] = player
    THEN [players |-> ps, refs |-> rf, emitted |-> <<>>]
    ELSE LET ps1 == IF func # "NULL"
                    THEN g_list_insert_sorted_with_data(ps, player, func, data)
                    ELSE g_list_prepend(ps, player)
         IN  [players |-> ps1,
              refs |-> g_object_ref(rf, player),
              emitted |-> <<Signal("player-appeared", NullStr, player,
                                   player_names, ps1, rf[player] + 1)>>]

(***************************************************************************)
(* playerctl_player_manager_move_player_to_top                             *)
(***************************************************************************)
\* Variant: the list is not sorted again after the move.
move_player_to_top_without_sort(ps, func, data, player) ==
    LET l == FirstIndex({ i \in 1..Len(ps) : ps[i] = player })
    IN  IF l = 0 THEN ps
        ELSE g_list_concat(<<ps[l]>>, g_list_remove_link(ps, l))

playerctl_player_manager_move_player_to_top(ps, func, data, player) ==
    LET l == FirstIndex({ i \in 1..Len(ps) : ps[i] = player })
    IN  IF l = 0 THEN ps
        ELSE LET ps1 == g_list_concat(<<ps[l]>>, g_list_remove_link(ps, l))
             IN  IF func # "NULL"
                 THEN g_list_sort_with_data(ps1, func, data)
                 ELSE ps1

(***************************************************************************)
(* playerctl_player_manager_set_sort_func: the list it leaves.  With a     *)
(* NULL sort_func the merge of two links calls through the null pointer.   *)
(***************************************************************************)
SortCallsNull(ps, func) == func = "NULL" /\ Len(ps) >= 2

\* Variant: the configuration is stored and the list left as it is.
set_sort_func_without_sort(ps, func, data) == ps

playerctl_player_manager_set_sort_func(ps, func, data) ==
    IF func = "NULL" THEN ps ELSE g_list_sort_with_data(ps, func, data)

(***************************************************************************)
(* Initial state: the object allocated, its private data zeroed            *)
(* (playerctl_player_manager_init).                                        *)
(***************************************************************************)
Object ==
    /\ pc = "new"
    /\ initted = FALSE
    /\ init_error = FALSE
    /\ proxy = "NULL"
    /\ subscriptions = 0
    /\ player_names = <<>>
    /\ players = <<>>
    /\ sort_func = "NULL"
    /\ sort_data = "NULL"
    /\ sort_notify = "NULL"
    /\ refs = [h \in Handles |-> 0]
    /\ attempts = <<>>
    /\ result = "none"
    /\ last = NoOp
    /\ emitted = <<>>
    /\ everManaged = {}
    /\ episode = [x \in Ids |-> NoEpisode]
    /\ closed = NoEpisode
    /\ owned = {}

Init == Object /\ observe = "operations"

InitEpisodes == Object /\ observe = "episodes"

InitAttempts == Object /\ observe = "attempts"

InitBus == Object /\ observe = "bus"

(***************************************************************************)
(* Construction.  g_initable_new builds the object, whose constructed      *)
(* handler calls g_initable_init, and then calls g_initable_init itself.   *)
(***************************************************************************)
\* constructed: g_initable_init(manager, NULL, &priv->init_error)
Constructed ==
    /\ pc = "new"
    /\ \E answer \in BusAnswers :
         LET outcome == answer[1]
             r == playerctl_player_manager_initable_init(outcome, answer[2])
         IN  /\ initted' = r.initted
             /\ init_error' = r.error
             /\ proxy' = r.proxy
             /\ subscriptions' = r.subscriptions
             /\ player_names' = r.player_names
             /\ attempts' = Attempted(r, outcome)
             /\ owned' = Enumerated(r, outcome, answer[2])
    /\ pc' = "constructed"
    /\ UNCHANGED <<players, sortVars, refs, result>>
    /\ History(Other("constructed"),
               <<>>, players)

\* playerctl_player_manager_new: the g_initable_init of g_initable_new with
\* &tmp_error; on FALSE the object is unreferenced (dispose and finalize run)
\* and NULL is returned with the error.
New ==
    /\ pc = "constructed"
    /\ \E answer \in BusAnswers :
         LET outcome == answer[1]
             r == playerctl_player_manager_initable_init(outcome, answer[2])
         IN  /\ attempts' = Attempted(r, outcome)
             /\ owned' = Enumerated(r, outcome, answer[2])
             /\ IF r.ret
                THEN /\ pc' = "ready"
                     /\ result' = "manager"
                     /\ initted' = r.initted
                     /\ proxy' = r.proxy
                     /\ subscriptions' = r.subscriptions
                     /\ player_names' = r.player_names
                     /\ UNCHANGED init_error
                ELSE /\ pc' = "failed"
                     /\ result' = "error"
                     /\ initted' = r.initted
                     /\ proxy' = "NULL"
                     /\ subscriptions' = r.subscriptions
                     /\ player_names' = <<>>
                     /\ init_error' = FALSE
    /\ UNCHANGED <<players, sortVars, refs>>
    /\ History(Other("new"),
               <<>>, players)

(***************************************************************************)
(* Operations on a manager that new returned.                              *)
(***************************************************************************)
\* The proxy delivers a g-signal to the connected callback.
NameOwnerChanged(n) ==
    /\ pc = "ready"
    /\ subscriptions >= 1
    /\ Delivered(n)
    /\ LET r == dbus_name_owner_changed_callback(player_names, players, refs, n)
       IN  /\ player_names' = r.player_names
           /\ players' = r.players
           /\ refs' = r.refs
           /\ owned' = Bus(n)
           /\ History(Op("notify", IdOf(n), KindOf(n), NullPlayer,
                         IdOf(n) \in Range(player_names), NoCfg, <<>>),
                      r.emitted, r.players)
    /\ UNCHANGED <<privVars, sortVars, lifeVars>>

ManagePlayer(player) ==
    /\ pc = "ready"
    /\ LET r == playerctl_player_manager_manage_player(
                    players, refs, sort_func, sort_data, player)
       IN  /\ players' = r.players
           /\ refs' = r.refs
           /\ History(Op("manage", NullStr, "none", player,
                         player \in Range(players), NoCfg, <<>>),
                      r.emitted, r.players)
    /\ UNCHANGED <<privVars, player_names, sortVars, lifeVars, owned>>

MovePlayerToTop(player) ==
    /\ pc = "ready"
    /\ players' = playerctl_player_manager_move_player_to_top(
                      players, sort_func, sort_data, player)
    /\ History(Op("move_to_top", NullStr, "none", player, FALSE, NoCfg,
                  players),
               <<>>, players')
    /\ UNCHANGED <<privVars, player_names, sortVars, refs, lifeVars, owned>>

SetSortFunc(cfg) ==
    /\ pc = "ready"
    /\ sort_func' = cfg[1]
    /\ sort_data' = cfg[2]
    /\ sort_notify' = cfg[3]
    /\ IF SortCallsNull(players, cfg[1])
       THEN /\ pc' = "crashed"
            /\ UNCHANGED players
       ELSE /\ pc' = pc
            /\ players' = playerctl_player_manager_set_sort_func(
                              players, cfg[1], cfg[2])
    /\ History(Op("set_sort", NullStr, "none", NullPlayer, FALSE, cfg, players),
               <<>>, players')
    /\ UNCHANGED <<privVars, player_names, refs, attempts, result, owned>>

\* g_initable_init called once more on the manager that new returned
InitAgain ==
    /\ pc = "ready"
    /\ \E answer \in (IF initted THEN {<<"ok", <<>>>>} ELSE BusAnswers) :
         LET outcome == answer[1]
             r == playerctl_player_manager_initable_init(outcome, answer[2])
         IN  /\ initted' = r.initted
             /\ proxy' = r.proxy
             /\ subscriptions' = r.subscriptions
             /\ player_names' = r.player_names
             /\ attempts' = Attempted(r, outcome)
             /\ owned' = Enumerated(r, outcome, answer[2])
             /\ History(Op("init", NullStr,
                           IF r.attempted THEN "attempted" ELSE "skipped",
                           NullPlayer, r.ret, NoCfg, <<>>),
                        <<>>, players)
    /\ UNCHANGED <<pc, init_error, players, sortVars, refs, result>>

\* The last reference to the manager is dropped: dispose, then finalize.
Finalize ==
    /\ pc = "ready"
    /\ pc' = "finalized"
    /\ init_error' = FALSE
    /\ proxy' = "NULL"
    /\ subscriptions' = 0
    /\ player_names' = <<>>
    /\ players' = <<>>
    /\ refs' = [h \in Handles |->
                  refs[h] - Cardinality({ i \in 1..Len(players) : players[i] = h })]
    /\ UNCHANGED <<initted, sortVars, attempts, result, owned>>
    /\ History(Other("finalize"),
               <<>>, <<>>)

Next ==
    \/ Constructed
    \/ New
    \/ \E n \in Notifications : NameOwnerChanged(n)
    \/ \E player \in Handles \cup {NullPlayer} : ManagePlayer(player)
    \/ \E player \in Handles \cup {NullPlayer} : MovePlayerToTop(player)
    \/ \E cfg \in SortConfigs : SetSortFunc(cfg)
    \/ InitAgain
    \/ Finalize

Spec == Init /\ [][Next]_vars

\* The same program, its episodes recorded.
SpecEpisodes == InitEpisodes /\ [][Next]_vars

\* The same program, its bus attempts recorded.
SpecAttempts == InitAttempts /\ [][Next]_vars

\* The same program on a bus whose enumeration is accurate and whose
\* ownership changes are all delivered, in order.
SpecBus == InitBus /\ [][Next]_vars

(***************************************************************************)
(* Properties.                                                             *)
(***************************************************************************)
Without(list, x) == SelectSeq(list, LAMBDA e : e # x)

Occurrences(list, x) == Cardinality({ i \in 1..Len(list) : list[i] = x })

IsPermutation(s, t) ==
    /\ Len(s) = Len(t)
    /\ \A h \in Handles : Occurrences(s, h) = Occurrences(t, h)

Sorted(list, func, data) ==
    \A i, j \in 1..Len(list) :
        i < j => Compare(func, data, list[i], list[j]) <= 0

Emissions(em, sig, player) ==
    Cardinality({ i \in 1..Len(em) : em[i].sig = sig /\ em[i].player = player })

\* the step leaves the registry and the player list alone and emits nothing
Silent ==
    /\ player_names' = player_names
    /\ players' = players
    /\ emitted' = <<>>

\* C1: whatever the notifications after a duplicate-free enumeration, no two
\* entries of player_names are equal.
C1_NoDuplicateNames == NoDup(player_names)

\* an appeared notification has just grown the registry to two names
C1_Witness ==
    /\ last.op = "notify" /\ last.kind = "appeared" /\ ~last.was
    /\ Len(player_names) = 2

\* C2: no player occurs twice in players; manage on a player already in the
\* list changes neither the list nor the references and emits nothing; of two
\* manage calls in a row with the same player, the first finding it outside
\* the list, exactly one emits player-appeared.
C2_ManageIdempotent ==
    [][ /\ NoDup(players')
        /\ (last'.op = "manage" /\ last'.player \in Range(players))
              => /\ players' = players
                 /\ refs' = refs
                 /\ emitted' = <<>>
        /\ ( /\ last.op = "manage" /\ last'.op = "manage"
             /\ last.player = last'.player /\ last.player # NullPlayer
             /\ ~last.was )
              => /\ Emissions(emitted, "player-appeared", last.player)
                      + Emissions(emitted', "player-appeared", last.player) = 1
                 /\ players' = players
      ]_vars

\* manage has just been called with a player that was already in a full list
C2_Witness ==
    /\ last.op = "manage" /\ last.was
    /\ Len(players) = 3
    /\ emitted = <<>>

\* C3: when an id outside the registry, no player reporting it ever passed to
\* manage, appears and then vanishes, the two notifications emit one
\* name-appeared and one name-vanished with the id and no player signal, and
\* leave the player list as it was.
C3_SilentEpisode ==
    closed.open =>
        /\ closed.na = 1 /\ closed.nv = 1
        /\ closed.pa = 0 /\ closed.pv = 0
        /\ ~closed.changed

\* b has appeared and vanished while a player of another id was managed
C3_Witness ==
    /\ closed.open /\ closed.id = <<"b">>
    /\ players # <<>>

\* C4: a notification whose name lacks the prefix, or is the bare prefix,
\* changes neither list and emits nothing, whatever its owners.
C4_ForeignNameIgnored ==
    [][ ( /\ last'.op = "notify" /\ last'.kind # "malformed"
          /\ last'.id \in {NullStr, <<>>} ) => Silent ]_vars

\* the bare prefix has just been announced as appeared to a manager that holds
\* names and players
C4_Witness ==
    /\ last.op = "notify" /\ last.kind = "appeared" /\ last.id = <<>>
    /\ player_names # <<>> /\ players # <<>>

\* C5: a notification for a conforming name with both owners set, or both
\* empty, changes neither list and emits nothing.
C5_HandoffIgnored ==
    [][ ( /\ last'.op = "notify" /\ last'.id \in Ids
          /\ last'.kind \in {"handoff", "unowned"} ) => Silent ]_vars

\* an owner hand-off has just been notified for a name in the registry that a
\* managed player reports
C5_Witness ==
    /\ last.op = "notify" /\ last.kind = "handoff" /\ last.was
    /\ \E i \in 1..Len(players) : PlayerId(players[i]) = last.id

\* C6: without a comparator, move_to_top puts a player of the list at its
\* head, the others keeping their order, leaves the list alone for any other
\* player, and emits nothing.
C6_MoveToTop ==
    (last.op = "move_to_top" /\ sort_func = "NULL") =>
        /\ IF last.player \in Range(last.before)
           THEN /\ Len(players) = Len(last.before)
                /\ players[1] = last.player
                /\ Without(players, last.player)
                       = Without(last.before, last.player)
           ELSE players = last.before
        /\ Range(players) = Range(last.before)
        /\ emitted = <<>>

\* [A,B,C] with move_to_top(C) has become [C,A,B]
C6_Witness ==
    /\ last.op = "move_to_top" /\ last.player = 3
    /\ last.before = <<1, 2, 3>>
    /\ sort_func = "NULL"
    /\ players = <<3, 1, 2>>

\* C7: when set_sort returns, the list is a permutation of what it was,
\* ordered by the new comparator; the three fields hold the new
\* configuration; nothing is emitted and no reference changes.
C7_SetSort ==
    [][ (last'.op = "set_sort" /\ pc' # "crashed") =>
          /\ IsPermutation(players', players)
          /\ last'.cfg[1] # "NULL"
                => Sorted(players', last'.cfg[1], last'.cfg[2])
          /\ <<sort_func', sort_data', sort_notify'>> = last'.cfg
          /\ emitted' = <<>>
          /\ refs' = refs
      ]_vars

\* [A,B,C] with priorities B=1, A=2, C=3 has become [B,A,C]
C7_Witness ==
    /\ last.op = "set_sort" /\ last.cfg[2] = "prio1"
    /\ last.before = <<1, 2, 3>>
    /\ players = <<2, 1, 3>>

\* C8: an appeared notification for an id that is in the registry changes
\* neither list and emits nothing.
C8_KnownNameAppeared ==
    [][ ( /\ last'.op = "notify" /\ last'.kind = "appeared"
          /\ last'.id \in Range(player_names) ) => Silent ]_vars

\* the second name of the registry has just been announced as appeared
C8_Witness ==
    /\ last.op = "notify" /\ last.kind = "appeared" /\ last.was
    /\ Len(player_names) = 2 /\ player_names[2] = last.id

\* C9: once new has returned, the bus has been asked exactly once.
C9_SingleAttempt == result # "none" => Len(attempts) = 1

\* C10: after a failed attempt the manager is never initted, holds no
\* subscription and is not returned by new.
C10_FailureIsFinal ==
    (\E i \in 1..Len(attempts) : attempts[i] # "ok") =>
        /\ ~initted
        /\ subscriptions = 0
        /\ pc # "ready"
        /\ result # "manager"

\* C11: g_initable_init on a manager that new returned gives TRUE without
\* asking the bus, leaves the registry, the player list and the references
\* alone, emits nothing and connects no second handler: one handler is
\* connected, so each notification is handled once.
C11_InitAgainIsNoOp ==
    [][ last'.op = "init" =>
          /\ last'.was
          /\ last'.kind = "skipped"
          /\ player_names' = player_names
          /\ players' = players
          /\ refs' = refs
          /\ emitted' = <<>>
          /\ subscriptions' = subscriptions
          /\ subscriptions' = 1
      ]_vars

\* init has just been called again on a manager that holds names and players
C11_Witness ==
    /\ last.op = "init" /\ last.was /\ last.kind = "skipped"
    /\ player_names # <<>> /\ players # <<>>
    /\ subscriptions = 1

\* C12: manage, move_to_top and set_sort, whatever their arguments, leave a
\* manager that new returned usable: none of them ends in a failure.
C12_OperationsNeverFail ==
    [][ (pc = "ready" /\ last'.op \in {"manage", "move_to_top", "set_sort"})
            => pc' = "ready" ]_vars

\* C13: a vanished notification for an id X of the registry takes X out of
\* the registry, then unlinks the first player reporting X, if any, and emits
\* player-vanished with it, then emits name-vanished with X: the handlers of
\* both signals see the registry without X and the list without the player,
\* and name-vanished is the last signal of the notification.
C13_VanishOrder ==
    [][ ( /\ last'.op = "notify" /\ last'.kind = "vanished"
          /\ last'.id \in Range(player_names) ) =>
          LET X == last'.id
              l == FirstIndex({ i \in 1..Len(players) : PlayerId(players[i]) = X })
              nv == emitted'[Len(emitted')]
          IN  /\ player_names' = Without(player_names, X)
              /\ X \notin Range(player_names')
              /\ emitted' # <<>>
              /\ nv.sig = "name-vanished" /\ nv.name = X
              /\ \A i \in 1..Len(emitted') :
                    /\ emitted'[i].player_names = player_names'
                    /\ emitted'[i].players = players'
              /\ IF l # 0
                 THEN /\ Len(emitted') = 2
                      /\ emitted'[1].sig = "player-vanished"
                      /\ emitted'[1].player = players[l]
                      /\ players[l] \notin Range(emitted'[1].players)
                      /\ players' = g_list_remove_link(players, l)
                 ELSE /\ Len(emitted') = 1
                      /\ players' = players
      ]_vars

\* a managed player's name has just vanished while other players stay managed
C13_Witness ==
    /\ last.op = "notify" /\ last.kind = "vanished" /\ last.was
    /\ Len(emitted) = 2
    /\ emitted[1].sig = "player-vanished" /\ emitted[2].sig = "name-vanished"
    /\ players # <<>> /\ player_names # <<>>

\* C14: an appeared notification for an id X outside the registry puts X in
\* front of the registry, the rest as it was, emits name-appeared once with X
\* and nothing else, the handler seeing X in the registry, and changes neither
\* the player list nor the references.
C14_AppearedPrepends ==
    [][ ( /\ last'.op = "notify" /\ last'.kind = "appeared"
          /\ last'.id \in Ids /\ last'.id \notin Range(player_names) ) =>
          /\ player_names' = <<last'.id>> \o player_names
          /\ Len(emitted') = 1
          /\ emitted'[1].sig = "name-appeared"
          /\ emitted'[1].name = last'.id
          /\ emitted'[1].player_names = player_names'
          /\ players' = players
          /\ refs' = refs
      ]_vars

\* a second name has just appeared while players are managed
C14_Witness ==
    /\ last.op = "notify" /\ last.kind = "appeared" /\ ~last.was
    /\ Len(player_names) = 2 /\ player_names[1] = last.id
    /\ Len(emitted) = 1
    /\ players # <<>>

\* C15: without a comparator, manage with a player outside the list puts it
\* in front of the list, the rest as it was, and emits player-appeared once
\* with it, the handler seeing the player in the list; the registry is
\* unchanged.
C15_ManagePrepends ==
    [][ ( /\ last'.op = "manage" /\ last'.player # NullPlayer
          /\ last'.player \notin Range(players)
          /\ sort_func = "NULL" ) =>
          /\ players' = <<last'.player>> \o players
          /\ Len(emitted') = 1
          /\ emitted'[1].sig = "player-appeared"
          /\ emitted'[1].player = last'.player
          /\ emitted'[1].players = players'
          /\ player_names' = player_names
      ]_vars

\* a third player has just been managed, no comparator set
C15_Witness ==
    /\ last.op = "manage" /\ ~last.was /\ last.player # NullPlayer
    /\ sort_func = "NULL"
    /\ Len(players) = 3 /\ players[1] = last.player
    /\ Len(emitted) = 1
    /\ player_names # <<>>

\* C16: after every operation the manager holds one reference on each player
\* of the list and none on any other; a reference is taken only by manage of
\* that player, and dropped, once, only by the vanished notification that
\* unlinks the player, which emits player-vanished while the reference is
\* still held, or by the teardown of the manager.
C16_References ==
    [][ /\ \A h \in Handles :
              refs'[h] = (IF h \in Range(players') THEN 1 ELSE 0)
        /\ \A h \in Handles : refs'[h] > refs[h] =>
              /\ refs'[h] = refs[h] + 1
              /\ last'.op = "manage" /\ last'.player = h
        /\ \A h \in Handles : refs'[h] < refs[h] =>
              /\ refs'[h] = refs[h] - 1
              /\ \/ last'.op = "finalize"
                 \/ /\ last'.op = "notify" /\ last'.kind = "vanished"
                    /\ h \notin Range(players')
                    /\ \E i \in 1..Len(emitted') :
                          /\ emitted'[i].sig = "player-vanished"
                          /\ emitted'[i].player = h
                          /\ emitted'[i].held = 1
      ]_vars

\* a vanished notification has just unlinked one of several managed players
\* and dropped its reference
C16_Witness ==
    /\ last.op = "notify" /\ last.kind = "vanished"
    /\ Len(emitted) = 2 /\ emitted[1].sig = "player-vanished"
    /\ emitted[1].held = 1 /\ refs[emitted[1].player] = 0
    /\ Len(players) = 2

\* C17: every player of the list reports an id that is in the registry.
C17_ManagedIdsTracked ==
    \A i \in 1..Len(players) : PlayerId(players[i]) \in Range(player_names)

\* C18: after a vanished notification for an id of the registry, no player
\* of the list reports that id.
C18_NoHandleOfVanishedId ==
    (last.op = "notify" /\ last.kind = "vanished" /\ last.was) =>
        \A i \in 1..Len(players) : PlayerId(players[i]) # last.id

\* C19: while a comparator is set, the list is in non-decreasing order of it
\* after every manage, move_to_top and notification; manage adds its player
\* if it was not in the list and nothing else, move_to_top permutes the list,
\* and a notification takes out at most one player.
C19_SortedOnceConfigured ==
    [][ ( /\ sort_func # "NULL"
          /\ last'.op \in {"manage", "move_to_top", "notify"} ) =>
          /\ Sorted(players', sort_func, sort_data)
          /\ NoDup(players')
          /\ last'.op = "manage" =>
                /\ Range(players') =
                      Range(players) \cup ({last'.player} \ {NullPlayer})
          /\ last'.op = "move_to_top" => IsPermutation(players', players)
          /\ last'.op = "notify" =>
                /\ Range(players') \subseteq Range(players)
                /\ Len(players') >= Len(players) - 1
                /\ Len(players') < Len(players) =>
                      /\ last'.kind = "vanished"
                      /\ last'.id \in Range(player_names)
      ]_vars

\* under a comparator, move_to_top has just been called with a player that
\* the comparator does not rank first among three
C19_Witness ==
    /\ sort_func # "NULL"
    /\ last.op = "move_to_top" /\ last.player \in Range(players)
    /\ Len(players) = 3 /\ players[1] # last.player
    /\ Compare(sort_func, sort_data, players[1], last.player) < 0

\* C20: on a bus whose enumeration is accurate and whose ownership changes
\* are all delivered in order, the ids of the registry of a manager that new
\* returned are the ids whose conforming names have an owner.
C20_RegistryFollowsBus ==
    (observe = "bus" /\ pc \in {"ready", "crashed"}) =>
        Range(player_names) = owned

\* b has just lost its owner on a bus where a has one, players being managed
C20_Witness ==
    /\ observe = "bus" /\ pc = "ready"
    /\ last.op = "notify" /\ last.kind = "vanished" /\ last.id = <<"b">>
    /\ last.was
    /\ owned = {<<"a">>} /\ player_names = <<<<"a">>>>
    /\ players # <<>>

====
